---- MODULE Spec2Model ----
(***************************************************************************)
(* Model of download_historical_daily_prices (src/historical_loader.py):   *)
(* the batched, retrying bulk download loop, together with the response    *)
(* normaliser _extract_yfinance_batch it calls, and the fetch of the       *)
(* ticker list (fetch_nyse_tickers) that precedes it when tickers is None. *)
(*                                                                         *)
(* Tickers are modelled as naturals; their numeric order stands for the    *)
(* alphabetical order of the ticker strings.  A provider response is       *)
(* modelled by what the normaliser reads of it: its shape (empty, grouped  *)
(* by ticker, or flat), the tickers on its first column level, and which   *)
(* of them carry at least one non-null row.                                *)
(***************************************************************************)
EXTENDS Integers, Sequences, FiniteSets, TLC

VARIABLES
    pc,                      \* position: "fetch", "validate", "loop", "call", "exit"
    tickers,                 \* argument: the input ticker list (at "fetch": None, not yet set)
    batch_size,              \* argument
    max_retries_per_ticker,  \* argument
    retry_backoff_seconds,   \* argument (whole seconds)
    delay_seconds,           \* argument (whole seconds)
    no_data_confirmations,   \* argument
    repeat_index,            \* provider: its frames hold their first date twice
    pending,                 \* the deque of tickers still to request
    total_tickers,
    finalized,
    attempt_counts,
    no_data_counts,
    failed_tickers,
    frames,                  \* list of non-empty normalised frames
    batch,                   \* the batch of the round in progress
    succeeded,               \* history: union of success_tickers of all rounds
    confirmed_no_data,       \* history: union of no_data_confirmed of all rounds
    answered,                \* history: tickers some returned call did not leave unresolved
    empty_seen,              \* history: per ticker, its present-but-empty answers so far
    empty_at_reset,          \* history: empty_seen at the ticker's last failure or success
    network_used,            \* history: some request went out (ticker directory or provider)
    blank_only,              \* history: tickers whose every round was an entirely empty answer
    raise_counts,            \* history: per ticker, the calls naming it that raised
    request_counts,          \* history: per ticker, the completed calls that named it
    call_count,              \* history: the completed provider calls
    slept,                   \* the sleep of the last completed round
    outcome,                 \* how the call ended
    listing,                 \* ticker_loader: the rows of the directory file
    include_types,           \* ticker_loader: argument ({} for None)
    include_exchanges,       \* ticker_loader: argument ({} for None)
    limit,                   \* ticker_loader: argument (<<>> for None, <<n>> for n)
    nyse                     \* ticker_loader: the table returned

vars == <<pc, tickers, batch_size, max_retries_per_ticker, retry_backoff_seconds,
          delay_seconds, no_data_confirmations, repeat_index, pending, total_tickers, finalized,
          attempt_counts, no_data_counts, failed_tickers, frames, batch, succeeded,
          confirmed_no_data, answered, empty_seen, empty_at_reset, network_used,
          blank_only, raise_counts, request_counts, call_count,
          slept, outcome, listing, include_types, include_exchanges, limit, nyse>>

\* the state of fetch_nyse_tickers_with_names
names_vars == <<listing, include_types, include_exchanges, limit, nyse>>

params == <<tickers, batch_size, max_retries_per_ticker, retry_backoff_seconds,
            delay_seconds, no_data_confirmations, repeat_index>>

----------------------------------------------------------------------------
(* Bounds of the model *)

NumTickers == 2
MaxRetries == 1
MaxConfirmations == 2
MaxRounds == 8
MaxListing == 2

(* Constants of the program *)

DefaultBatchSize == 50
FailedSampleCap == 20
BackoffCapSeconds == 60

----------------------------------------------------------------------------
(* Helpers *)

Range(s) == {s[i] : i \in 1..Len(s)}

Min(a, b) == IF a <= b THEN a ELSE b

Max(a, b) == IF a >= b THEN a ELSE b

RECURSIVE Pow2(_)
Pow2(n) == IF n <= 0 THEN 1 ELSE 2 * Pow2(n - 1)

RECURSIVE SetMax(_)
SetMax(S) ==
    IF S = {} THEN 0
    ELSE LET x == CHOOSE y \in S : TRUE IN Max(x, SetMax(S \ {x}))

\* The orders in which a Python set can be iterated: every enumeration of S.
RECURSIVE Orders(_)
Orders(S) ==
    IF S = {} THEN {<<>>}
    ELSE UNION { { <<x>> \o o : o \in Orders(S \ {x}) } : x \in S }

\* sorted(S), ascending
Sorted(S) ==
    [i \in 1..Cardinality(S) |->
        CHOOSE x \in S : Cardinality({y \in S : y < x}) = i - 1]

\* variant: no deduplication
FromKeysKeepAll(s) == s

\* list(dict.fromkeys(s)): the distinct elements in first-seen order
RECURSIVE FromKeys(_)
FromKeys(s) ==
    IF s = <<>> THEN <<>>
    ELSE LET NotFirst(x) == x # s[1]
         IN  <<s[1]>> \o FromKeys(SelectSeq(Tail(s), NotFirst))

----------------------------------------------------------------------------
(* The provider's responses, as far as the normaliser reads them *)

SmallTickers == 1..NumTickers

\* the trading days of the requested range
Dates == {1, 2}

\* the index of a frame with rows: the dates in ascending order, the first one
\* twice when the provider repeats it
FrameIndex ==
    IF repeat_index THEN <<Sorted(Dates)[1]>> \o Sorted(Dates) ELSE Sorted(Dates)

\* The raw frames yf.download can hand back for a batch: an empty frame; a frame
\* grouped by ticker (MultiIndex columns) holding any subset of the batch on its
\* first level, any subset of those with non-null rows; a flat frame (no ticker
\* level, the answer to a request that names a ticker) whose rows are all null
\* or not.  A ticker with data has a non-null row
\* on every entry of the index.  Tickers outside SmallTickers are present or
\* absent, and filled or null, together.
Responses(b) ==
    LET small == Range(b) \cap SmallTickers
        big   == Range(b) \ SmallTickers
        multi == UNION { UNION { UNION {
                    { [shape |-> "multi", level0 |-> l \cup bl, data |-> d \cup bd,
                       dates |-> IF d \cup bd = {} THEN {} ELSE Dates,
                       index |-> IF d \cup bd = {} THEN <<>> ELSE FrameIndex]
                      : bd \in {{}, bl} }
                    : d \in SUBSET l }
                    : bl \in {{}, big} }
                    : l \in SUBSET small }
        flat  == IF b = <<>> THEN {}
                 ELSE { [shape |-> "flat", level0 |-> {}, data |-> {}, dates |-> D,
                         index |-> IF D = {} THEN <<>> ELSE FrameIndex]
                           : D \in {{}, Dates} }
        empty == { [shape |-> "empty", level0 |-> {}, data |-> {}, dates |-> {},
                    index |-> <<>>] }
    IN  multi \cup flat \cup empty

----------------------------------------------------------------------------
(* _extract_yfinance_batch *)

\* ticker_df.reset_index() with the Ticker column added: one row per non-null
\* entry of the index, in index order; Close stands for the values of the row
\* (here the position of the row in the frame)
TickerOut(ticker, index) ==
    [i \in 1..Len(index) |-> [Date |-> index[i], Ticker |-> ticker, Close |-> i]]

\* pd.concat(frames, ignore_index=True)
RECURSIVE Concat(_)
Concat(fs) == IF fs = <<>> THEN <<>> ELSE fs[1] \o Concat(Tail(fs))

\* variant: a frame for every ticker of the batch, whatever its classification
RECURSIVE BatchFramesEveryTicker(_, _, _)
BatchFramesEveryTicker(b, success, index) ==
    IF b = <<>> THEN <<>>
    ELSE <<TickerOut(b[1], index)>> \o BatchFramesEveryTicker(Tail(b), success, index)

\* the frames list built by the loop over the batch, in batch order
RECURSIVE BatchFrames(_, _, _)
BatchFrames(b, success, index) ==
    IF b = <<>> THEN <<>>
    ELSE (IF b[1] \in success THEN <<TickerOut(b[1], index)>> ELSE <<>>)
         \o BatchFrames(Tail(b), success, index)

\* variant: a ticker missing from the first column level counted as empty
ExtractMultiIndexAbsentAsNoData(raw, b) ==
    LET no_data == {t \in Range(b) : t \notin raw.data}
        success == {t \in Range(b) : t \in raw.level0 /\ t \in raw.data}
    IN  [frame |-> Concat(BatchFrames(b, success, raw.index)),
         success |-> success, no_data |-> no_data, unresolved |-> {}]

\* the grouped-by-ticker branch: every ticker of the batch is classified
ExtractMultiIndex(raw, b) ==
    LET unresolved == {t \in Range(b) : t \notin raw.level0}
        no_data    == {t \in Range(b) : t \in raw.level0 /\ t \notin raw.data}
        success    == {t \in Range(b) : t \in raw.level0 /\ t \in raw.data}
    IN  [frame |-> Concat(BatchFrames(b, success, raw.index)),
         success |-> success, no_data |-> no_data, unresolved |-> unresolved]

\* variant: a flat frame without a non-null row leaves the ticker unresolved
ExtractFlatEmptyUnresolved(raw, b) ==
    LET ticker == b[1]
    IN  IF raw.dates = {}
        THEN [frame |-> <<>>, success |-> {}, no_data |-> {}, unresolved |-> {ticker}]
        ELSE [frame |-> TickerOut(ticker, raw.index),
              success |-> {ticker}, no_data |-> {}, unresolved |-> {}]

\* the flat branch: only batch[0] is classified
ExtractFlat(raw, b) ==
    LET ticker == b[1]
    IN  IF raw.dates = {}
        THEN [frame |-> <<>>, success |-> {}, no_data |-> {ticker}, unresolved |-> {}]
        ELSE [frame |-> TickerOut(ticker, raw.index),
              success |-> {ticker}, no_data |-> {}, unresolved |-> {}]

\* variant: an empty frame counted as an empty answer for every ticker
ExtractYfinanceBatchEmptyAsNoData(raw, b) ==
    IF raw.shape = "empty"
    THEN [frame |-> <<>>, success |-> {}, no_data |-> Range(b), unresolved |-> {}]
    ELSE IF raw.shape = "multi" THEN ExtractMultiIndex(raw, b)
    ELSE ExtractFlat(raw, b)

ExtractYfinanceBatch(raw, b) ==
    IF raw.shape = "empty"
    THEN [frame |-> <<>>, success |-> {}, no_data |-> {}, unresolved |-> Range(b)]
    ELSE IF raw.shape = "multi" THEN ExtractMultiIndex(raw, b)
    ELSE ExtractFlat(raw, b)

----------------------------------------------------------------------------
(* Pieces of download_historical_daily_prices *)

NoOutcome ==
    [kind |-> "none", message |-> "", count |-> 0, sample |-> <<>>, table |-> <<>>]

NoSleep == [kind |-> "none", seconds |-> 0]

\* variant: the batch_size check left out
ConfigErrorNoBatchCheck ==
    IF tickers = <<>> THEN "No tickers to download"
    ELSE IF max_retries_per_ticker < 0 THEN "max_retries_per_ticker must be >= 0"
    ELSE IF retry_backoff_seconds < 0 THEN "retry_backoff_seconds must be >= 0"
    ELSE IF no_data_confirmations < 1 THEN "no_data_confirmations must be >= 1"
    ELSE "ok"

\* the argument checks, in the order of the code; "ok" when all pass
ConfigError ==
    IF tickers = <<>> THEN "No tickers to download"
    ELSE IF batch_size < 1 THEN "batch_size must be >= 1"
    ELSE IF max_retries_per_ticker < 0 THEN "max_retries_per_ticker must be >= 0"
    ELSE IF retry_backoff_seconds < 0 THEN "retry_backoff_seconds must be >= 0"
    ELSE IF no_data_confirmations < 1 THEN "no_data_confirmations must be >= 1"
    ELSE "ok"

\* variant: one ticker per batch
BatchLengthOne(queue) == Min(1, Len(queue))

\* variant: one ticker more than batch_size
BatchLengthOneMore(queue) == Min(batch_size + 1, Len(queue))

\* range(min(batch_size, len(pending))): the number of tickers popped for a batch
BatchLength(queue) == Min(batch_size, Len(queue))

\* variant: < in place of <=
RetryAllowedStrict(attempt) == attempt < max_retries_per_ticker

\* variant: one retry too many
RetryAllowedOneMore(attempt) == attempt <= max_retries_per_ticker + 1

\* variant: twice the retry budget
RetryAllowedTwice(attempt) == attempt <= 2 * max_retries_per_ticker

\* attempt_counts[ticker] <= max_retries_per_ticker: the ticker is re-enqueued
RetryAllowed(attempt) == attempt <= max_retries_per_ticker

\* variant: > in place of >=
NoDataConfirmedStrict(count) == count > no_data_confirmations

\* variant: confirmed one empty answer late when more than one is asked for
NoDataConfirmedLate(count) == count >= 2 * no_data_confirmations - 1

\* no_data_counts[ticker] >= no_data_confirmations: the ticker is confirmed empty
NoDataConfirmed(count) == count >= no_data_confirmations

\* variant: every no-data ticker asked again, the confirmed ones too
NoDataRetryAll(no_data, no_data_confirmed) == no_data

\* the else branch of the confirmation test: the no-data tickers asked again
NoDataRetry(no_data, no_data_confirmed) == no_data \ no_data_confirmed

\* variant: the backoff not capped
BackoffSecondsUncapped(max_attempt_in_batch) ==
    retry_backoff_seconds * Pow2(max_attempt_in_batch - 1)

\* min(retry_backoff_seconds * 2 ** (max_attempt_in_batch - 1), 60.0)
BackoffSeconds(max_attempt_in_batch) ==
    Min(retry_backoff_seconds * Pow2(max_attempt_in_batch - 1), BackoffCapSeconds)

\* variant: [:1] in place of [:20]
FailedSampleFirstOnly(failed) ==
    SubSeq(Sorted(failed), 1, Min(1, Cardinality(failed)))

\* variant: sorted in descending order
FailedSampleDescending(failed) ==
    [i \in 1..Min(FailedSampleCap, Cardinality(failed)) |->
        Sorted(failed)[Cardinality(failed) + 1 - i]]

\* sorted(failed_tickers)[:20]
FailedSample(failed) ==
    SubSeq(Sorted(failed), 1, Min(FailedSampleCap, Cardinality(failed)))

\* drop_duplicates(subset=["Ticker", "Date"], keep="last")
SameKey(r1, r2) == r1.Ticker = r2.Ticker /\ r1.Date = r2.Date

\* the rows at the positions in keep, in their order
Take(rows, keep) ==
    [n \in 1..Cardinality(keep) |->
        rows[CHOOSE i \in keep : Cardinality({j \in keep : j < i}) = n - 1]]

\* variant: keep="first"
DropDuplicatesKeepFirst(rows) ==
    Take(rows, {i \in 1..Len(rows) :
                   ~\E j \in 1..(i - 1) : SameKey(rows[j], rows[i])})

DropDuplicatesKeepLast(rows) ==
    Take(rows, {i \in 1..Len(rows) :
                   ~\E j \in (i + 1)..Len(rows) : SameKey(rows[j], rows[i])})

\* sort_values(["Ticker", "Date"])
KeyLess(r1, r2) ==
    r1.Ticker < r2.Ticker \/ (r1.Ticker = r2.Ticker /\ r1.Date < r2.Date)

\* the number of rows that sort before row k (rows of equal key keep their order)
RowsBefore(rows, k) ==
    Cardinality({j \in 1..Len(rows) :
                    \/ KeyLess(rows[j], rows[k])
                    \/ j < k /\ SameKey(rows[j], rows[k])})

SortValues(rows) ==
    [n \in 1..Len(rows) |->
        rows[CHOOSE k \in 1..Len(rows) : RowsBefore(rows, k) = n - 1]]

\* variant: the no-data test placed before the failure test
FinalOutcomeNoDataFirst ==
    IF frames = <<>>
    THEN [kind |-> "RuntimeError", message |-> "No historical price data returned",
          count |-> 0, sample |-> <<>>, table |-> <<>>]
    ELSE IF failed_tickers # {}
    THEN [kind |-> "RuntimeError", message |-> "Failed to download",
          count |-> Cardinality(failed_tickers), sample |-> FailedSample(failed_tickers),
          table |-> <<>>]
    ELSE [kind |-> "return", message |-> "", count |-> 0, sample |-> <<>>,
          table |-> SortValues(DropDuplicatesKeepLast(Concat(frames)))]

\* variant: the no-data test left out
FinalOutcomeNoEmptyCheck ==
    IF failed_tickers # {}
    THEN [kind |-> "RuntimeError", message |-> "Failed to download",
          count |-> Cardinality(failed_tickers), sample |-> FailedSample(failed_tickers),
          table |-> <<>>]
    ELSE [kind |-> "return", message |-> "", count |-> 0, sample |-> <<>>,
          table |-> SortValues(DropDuplicatesKeepLast(Concat(frames)))]

\* the statements after the loop: the error or the result table
FinalOutcome ==
    IF failed_tickers # {}
    THEN [kind |-> "RuntimeError", message |-> "Failed to download",
          count |-> Cardinality(failed_tickers), sample |-> FailedSample(failed_tickers),
          table |-> <<>>]
    ELSE IF frames = <<>>
    THEN [kind |-> "RuntimeError", message |-> "No historical price data returned",
          count |-> 0, sample |-> <<>>, table |-> <<>>]
    ELSE [kind |-> "return", message |-> "", count |-> 0, sample |-> <<>>,
          table |-> SortValues(DropDuplicatesKeepLast(Concat(frames)))]

----------------------------------------------------------------------------
(* The calls the model explores *)

\* ticker lists over the small universe, repetitions included, and the empty list
SmallInputs == UNION { [1..n -> SmallTickers] : n \in 0..NumTickers }

\* one list long enough for more failures than the error message samples,
\* in descending (non-alphabetical) order
BigInput == [i \in 1..(FailedSampleCap + 1) |-> FailedSampleCap + 2 - i]

\* a list that names a ticker again after another one
RepeatInput == <<2, 1, 2>>

\* (retry_backoff_seconds, delay_seconds)
Timings == {<<-1, 0>>, <<0, 0>>}

SmallCalls ==
    { [tickers |-> i, batch_size |-> b, max_retries_per_ticker |-> r,
       retry_backoff_seconds |-> t[1], delay_seconds |-> t[2],
       no_data_confirmations |-> c]
      : i \in SmallInputs, b \in 0..NumTickers, r \in (-1)..MaxRetries,
        t \in Timings, c \in 0..MaxConfirmations }

\* the most provider calls a call can need: every ticker alone in its batch,
\* every retry and every confirmation used
WorstCaseRounds(c) ==
    Cardinality(Range(c.tickers)) * (c.max_retries_per_ticker + 1) * c.no_data_confirmations

\* the long list is requested in one batch and without retries
BigCalls ==
    [tickers : {BigInput},
     batch_size : {DefaultBatchSize},
     max_retries_per_ticker : {0},
     retry_backoff_seconds : {0},
     delay_seconds : {0},
     no_data_confirmations : {1}]

\* the list with the repetition, in one batch or one ticker at a time, no retries
RepeatCalls ==
    [tickers : {RepeatInput},
     batch_size : {1, 2},
     max_retries_per_ticker : {0},
     retry_backoff_seconds : {0},
     delay_seconds : {0},
     no_data_confirmations : {1}]

\* the calls answered by a provider that repeats a date: the list with the
\* repetition, with one retry
RepeatedDateCalls ==
    [tickers : {RepeatInput},
     batch_size : {1, 2},
     max_retries_per_ticker : {1},
     retry_backoff_seconds : {0},
     delay_seconds : {0},
     no_data_confirmations : {1}]

BoundedCalls == {c \in SmallCalls : WorstCaseRounds(c) <= MaxRounds}

Calls == BoundedCalls \cup BigCalls \cup RepeatCalls

\* calls with tickers=None: the list is fetched from the ticker directory
FetchCalls == {c \in SmallCalls : c.tickers = <<>>}

\* what fetch_nyse_tickers can return: sorted(set(...)), cut to nyse_limit or not
FetchedLists == {Sorted(S) : S \in SUBSET SmallTickers}

\* (retry_backoff_seconds, delay_seconds) of the calls that sleep: a backoff the
\* cap cuts at the second attempt, a backoff with a delay, a delay alone
SleepTimings == {<<40, 0>>, <<10, 5>>, <<0, 5>>}

\* the valid small calls on lists without repetition, with those timings
SleepCalls ==
    { [c EXCEPT !.retry_backoff_seconds = t[1], !.delay_seconds = t[2]]
      : c \in {d \in SmallCalls : /\ d.tickers \in FetchedLists
                                   /\ d.batch_size >= 1
                                   /\ d.max_retries_per_ticker >= 0
                                   /\ d.retry_backoff_seconds = 0
                                   /\ d.no_data_confirmations >= 1
                                   /\ WorstCaseRounds(d) <= MaxRounds},
        t \in SleepTimings }

(* ticker_loader.py: the directory of listed tickers with names and types *)

\* A symbol is a natural number, in alphabetical order; 0 stands for a symbol
\* that is not purely alphabetic or is longer than five characters
IsListable(symbol) == symbol # 0

\* re.search(r"\bETN\b|EXCHANGE TRADED NOTE", name)
MentionsETN(name) == name \in {"Alpha Income ETN"}

\* re.search(r"\bETC\b|EXCHANGE TRADED COMMODITY", name)
MentionsETC(name) == name \in {"Alpha Metal ETC"}

ClassifySecurityType(etf_flag, company_name) ==
    IF etf_flag = "Y"
    THEN IF MentionsETN(company_name) THEN "ETN"
         ELSE IF MentionsETC(company_name) THEN "ETC"
         ELSE "ETF"
    ELSE "STOCK"

\* include_exchanges or {"N", "P", "A"}
AllowedExchanges(exchanges) == IF exchanges = {} THEN {"N", "P", "A"} ELSE exchanges

\* include_types or {"STOCK", "ETF", "ETN", "ETC"}
AllowedTypes(types) == IF types = {} THEN {"STOCK", "ETF", "ETN", "ETC"} ELSE types

\* the three columns kept of a row of the file, and the Type column computed
NamedRow(r) ==
    [Ticker |-> r.Symbol, CompanyName |-> r.SecurityName,
     Type |-> ClassifySecurityType(r.ETF, r.SecurityName)]

\* variant: drop_duplicates(subset=["Ticker"], keep="last")
DropDuplicateTickersKeepLast(rows) ==
    Take(rows, {i \in 1..Len(rows) :
                   ~\E j \in (i + 1)..Len(rows) : rows[j].Ticker = rows[i].Ticker})

\* drop_duplicates(subset=["Ticker"], keep="first")
DropDuplicateTickers(rows) ==
    Take(rows, {i \in 1..Len(rows) :
                   ~\E j \in 1..(i - 1) : rows[j].Ticker = rows[i].Ticker})

\* sort_values("Ticker")
SortByTicker(rows) ==
    [n \in 1..Len(rows) |->
        rows[CHOOSE k \in 1..Len(rows) :
                Cardinality({j \in 1..Len(rows) :
                                \/ rows[j].Ticker < rows[k].Ticker
                                \/ j < k /\ rows[j].Ticker = rows[k].Ticker}) = n - 1]]

\* head(n) for n >= 0
HeadRows(rows, n) == SubSeq(rows, 1, Min(n, Len(rows)))

FetchNyseTickersWithNames(rows, types, exchanges, lim) ==
    LET on_exchange == Take(rows, {i \in 1..Len(rows) :
                                      rows[i].Exchange \in AllowedExchanges(exchanges)})
        named == [i \in 1..Len(on_exchange) |-> NamedRow(on_exchange[i])]
        alpha == Take(named, {i \in 1..Len(named) : IsListable(named[i].Ticker)})
        of_type == Take(alpha, {i \in 1..Len(alpha) : alpha[i].Type \in AllowedTypes(types)})
        sorted == SortByTicker(DropDuplicateTickers(of_type))
    IN  IF lim = <<>> THEN sorted ELSE HeadRows(sorted, lim[1])

\* The rows a directory file can hold
ListingRows ==
    [Symbol : 1..NumTickers,
     SecurityName : {"Alpha Common Stock", "Alpha Income ETN", "Alpha Metal ETC"},
     Exchange : {"N", "Q"},
     ETF : {"Y", "N"}]
    \cup {[Symbol |-> 0, SecurityName |-> "Alpha Common Stock", Exchange |-> "N", ETF |-> "N"]}

RECURSIVE ListingsOfLength(_)
ListingsOfLength(n) ==
    IF n = 0 THEN {<<>>}
    ELSE {Append(l, r) : l \in ListingsOfLength(n - 1), r \in ListingRows}

Listings == UNION {ListingsOfLength(n) : n \in 0..MaxListing}

\* No directory with names is being fetched
NoListing ==
    /\ listing = <<>>
    /\ include_types = {}
    /\ include_exchanges = {}
    /\ limit = <<>>
    /\ nyse = <<>>

\* No download is being made: the state of the download's variables
NoCall ==
    [tickers |-> <<>>, batch_size |-> DefaultBatchSize, max_retries_per_ticker |-> 0,
     retry_backoff_seconds |-> 0, delay_seconds |-> 0, no_data_confirmations |-> 1]

\* The download's variables before the call starts
CallState(calls, start, repeats) ==
    /\ \E c \in calls :
        /\ tickers = c.tickers
        /\ batch_size = c.batch_size
        /\ max_retries_per_ticker = c.max_retries_per_ticker
        /\ retry_backoff_seconds = c.retry_backoff_seconds
        /\ delay_seconds = c.delay_seconds
        /\ no_data_confirmations = c.no_data_confirmations
    /\ repeat_index = repeats
    /\ pc = start
    /\ pending = <<>>
    /\ total_tickers = 0
    /\ finalized = 0
    /\ attempt_counts = <<>>
    /\ no_data_counts = <<>>
    /\ failed_tickers = {}
    /\ frames = <<>>
    /\ batch = <<>>
    /\ succeeded = {}
    /\ confirmed_no_data = {}
    /\ answered = {}
    /\ empty_seen = <<>>
    /\ empty_at_reset = <<>>
    /\ network_used = FALSE
    /\ blank_only = {}
    /\ raise_counts = <<>>
    /\ request_counts = <<>>
    /\ call_count = 0
    /\ slept = NoSleep
    /\ outcome = NoOutcome

InitOf(calls, start, repeats) == CallState(calls, start, repeats) /\ NoListing

\* the provider gives each date once
InitWith(calls, start) == InitOf(calls, start, FALSE)

\* the calls on the small ticker lists, given or fetched
SmallInit == InitWith(BoundedCalls, "validate") \/ InitWith(FetchCalls, "fetch")

Init ==
    \/ SmallInit
    \/ InitWith(BigCalls \cup RepeatCalls, "validate")
    \/ InitOf(RepeatedDateCalls, "validate", TRUE)

----------------------------------------------------------------------------
(* What a returned response holds for the tickers of the batch in progress *)

\* the tickers of the batch a returned response does not hold at all: all of
\* them for an empty frame, those missing on the ticker level of a grouped frame
\* (a flat frame has no ticker level)
Absent(raw) ==
    IF raw.shape = "empty" THEN Range(batch)
    ELSE IF raw.shape = "multi" THEN Range(batch) \ raw.level0
    ELSE {}

\* the tickers of the batch a returned response holds without a non-null row;
\* a flat frame is the answer for the first ticker of the batch
PresentEmpty(raw) ==
    IF raw.shape = "multi" THEN (Range(batch) \cap raw.level0) \ raw.data
    ELSE IF raw.shape = "flat" /\ raw.dates = {} THEN {batch[1]}
    ELSE {}

\* the tickers of the batch a returned response holds with non-null rows
WithData(raw) ==
    IF raw.shape = "multi" THEN Range(batch) \cap raw.level0 \cap raw.data
    ELSE IF raw.shape = "flat" /\ raw.dates # {} THEN {batch[1]}
    ELSE {}

----------------------------------------------------------------------------
(* Actions *)

\* tickers is None: fetch_nyse_tickers returns the directory's tickers
FetchReturns ==
    /\ pc = "fetch"
    /\ \E l \in FetchedLists :
          /\ Len(l) * (max_retries_per_ticker + 1) * no_data_confirmations <= MaxRounds
          /\ tickers' = l
    /\ network_used' = TRUE
    /\ pc' = "validate"
    /\ UNCHANGED <<batch_size, max_retries_per_ticker, retry_backoff_seconds,
                   delay_seconds, no_data_confirmations, repeat_index, pending, total_tickers,
                   finalized, attempt_counts, no_data_counts, failed_tickers, frames,
                   batch, succeeded, confirmed_no_data, answered, empty_seen,
                   empty_at_reset, blank_only, raise_counts, request_counts, call_count,
                   slept, outcome>>
    /\ UNCHANGED names_vars

\* tickers is None: the directory request fails (client.get or raise_for_status)
FetchRaises ==
    /\ pc = "fetch"
    /\ network_used' = TRUE
    /\ outcome' = [NoOutcome EXCEPT !.kind = "RequestException"]
    /\ pc' = "exit"
    /\ UNCHANGED <<params, pending, total_tickers, finalized, attempt_counts,
                   no_data_counts, failed_tickers, frames, batch, succeeded,
                   confirmed_no_data, answered, empty_seen, empty_at_reset,
                   blank_only, raise_counts, request_counts, call_count, slept>>
    /\ UNCHANGED names_vars

\* the argument checks and the set-up of the queue and the counters
Validate ==
    /\ pc = "validate"
    /\ IF ConfigError # "ok"
       THEN /\ pc' = "exit"
            /\ outcome' = [NoOutcome EXCEPT !.kind = "ValueError", !.message = ConfigError]
            /\ UNCHANGED <<pending, total_tickers, attempt_counts, no_data_counts,
                           empty_seen, empty_at_reset, blank_only,
                           raise_counts, request_counts>>
       ELSE /\ pc' = "loop"
            /\ pending' = FromKeys(tickers)
            /\ total_tickers' = Len(FromKeys(tickers))
            /\ attempt_counts' = [t \in Range(tickers) |-> 0]
            /\ no_data_counts' = [t \in Range(tickers) |-> 0]
            /\ empty_seen' = [t \in Range(tickers) |-> 0]
            /\ empty_at_reset' = [t \in Range(tickers) |-> 0]
            /\ blank_only' = Range(tickers)
            /\ raise_counts' = [t \in Range(tickers) |-> 0]
            /\ request_counts' = [t \in Range(tickers) |-> 0]
            /\ UNCHANGED outcome
    /\ UNCHANGED <<params, finalized, failed_tickers, frames, batch, succeeded,
                   confirmed_no_data, answered, network_used, call_count, slept>>
    /\ UNCHANGED names_vars

\* while pending: take the next batch off the front of the queue
StartRound ==
    /\ pc = "loop"
    /\ pending # <<>>
    /\ call_count < MaxRounds    \* no call of the model needs more rounds
    /\ LET n == BatchLength(pending)
       IN  /\ batch' = SubSeq(pending, 1, n)
           /\ pending' = SubSeq(pending, n + 1, Len(pending))
    /\ pc' = "call"
    /\ UNCHANGED <<params, total_tickers, finalized, attempt_counts, no_data_counts,
                   failed_tickers, frames, succeeded, confirmed_no_data,
                   answered, empty_seen, empty_at_reset, network_used, blank_only,
                   raise_counts, request_counts, call_count,
                   slept, outcome>>
    /\ UNCHANGED names_vars

\* yf.download raises: the except branch
CallRaises ==
    /\ pc = "call"
    /\ LET retry_candidates == Range(batch)
           ac == [t \in DOMAIN attempt_counts |->
                     IF t \in retry_candidates THEN attempt_counts[t] + 1
                     ELSE attempt_counts[t]]
           retried == {t \in retry_candidates : RetryAllowed(ac[t])}
           failed == retry_candidates \ retried
           max_attempt_in_batch == SetMax({ac[t] : t \in retry_candidates})
       IN  /\ no_data_counts' = [t \in DOMAIN no_data_counts |->
                                    IF t \in retry_candidates THEN 0 ELSE no_data_counts[t]]
           /\ attempt_counts' = ac
           /\ \E order \in Orders(retried) : pending' = pending \o order
           /\ failed_tickers' = failed_tickers \cup failed
           /\ finalized' = finalized + Cardinality(failed)
           /\ slept' = IF retry_backoff_seconds # 0 /\ retry_candidates # {}
                       THEN [kind |-> "backoff", seconds |-> BackoffSeconds(max_attempt_in_batch)]
                       ELSE NoSleep
           /\ empty_at_reset' = [t \in DOMAIN empty_at_reset |->
                                    IF t \in retry_candidates THEN empty_seen[t]
                                    ELSE empty_at_reset[t]]
    /\ network_used' = TRUE
    /\ blank_only' = blank_only \ Range(batch)
    /\ raise_counts' = [t \in DOMAIN raise_counts |->
                           IF t \in Range(batch) THEN raise_counts[t] + 1
                           ELSE raise_counts[t]]
    /\ request_counts' = [t \in DOMAIN request_counts |->
                             IF t \in Range(batch) THEN request_counts[t] + 1
                             ELSE request_counts[t]]
    /\ call_count' = call_count + 1
    /\ pc' = "loop"
    /\ UNCHANGED <<params, total_tickers, frames, batch, succeeded, confirmed_no_data,
                   answered, empty_seen, outcome>>
    /\ UNCHANGED names_vars

\* yf.download returns raw: normalise it and settle each classified ticker
CallReturnsWith(raw) ==
    /\ pc = "call"
    /\ LET ex == ExtractYfinanceBatch(raw, batch)
            nd1 == [t \in DOMAIN no_data_counts |->
                       IF t \in ex.success THEN 0 ELSE no_data_counts[t]]
            nd2 == [t \in DOMAIN no_data_counts |->
                       IF t \in ex.no_data THEN nd1[t] + 1 ELSE nd1[t]]
            no_data_confirmed == {t \in ex.no_data : NoDataConfirmed(nd2[t])}
            no_data_retry == NoDataRetry(ex.no_data, no_data_confirmed)
            ac == [t \in DOMAIN attempt_counts |->
                      IF t \in ex.unresolved THEN attempt_counts[t] + 1
                      ELSE attempt_counts[t]]
            retried == {t \in ex.unresolved : RetryAllowed(ac[t])}
            failed == ex.unresolved \ retried
            max_attempt_in_batch ==
                SetMax({nd2[t] : t \in no_data_retry} \cup {ac[t] : t \in ex.unresolved})
        IN  /\ frames' = IF ex.frame # <<>> THEN Append(frames, ex.frame) ELSE frames
            /\ no_data_counts' = [t \in DOMAIN no_data_counts |->
                                     IF t \in ex.unresolved THEN 0 ELSE nd2[t]]
            /\ attempt_counts' = ac
            /\ \E o1 \in Orders(no_data_retry) : \E o2 \in Orders(retried) :
                   pending' = pending \o o1 \o o2
            /\ failed_tickers' = failed_tickers \cup failed
            /\ finalized' = finalized + Cardinality(ex.success)
                              + Cardinality(no_data_confirmed) + Cardinality(failed)
            /\ succeeded' = succeeded \cup ex.success
            /\ confirmed_no_data' = confirmed_no_data \cup no_data_confirmed
            /\ answered' = answered \cup (Range(batch) \ ex.unresolved)
            /\ empty_seen' = [t \in DOMAIN empty_seen |->
                                 IF t \in PresentEmpty(raw) THEN empty_seen[t] + 1
                                 ELSE empty_seen[t]]
            /\ empty_at_reset' = [t \in DOMAIN empty_at_reset |->
                                     IF t \in Absent(raw) \cup WithData(raw)
                                     THEN empty_seen[t]
                                     ELSE empty_at_reset[t]]
            /\ slept' = IF retry_backoff_seconds # 0
                           /\ (ex.unresolved # {} \/ no_data_retry # {})
                        THEN [kind |-> "backoff",
                              seconds |-> BackoffSeconds(max_attempt_in_batch)]
                        ELSE IF delay_seconds # 0 /\ pending' # <<>>
                        THEN [kind |-> "delay", seconds |-> delay_seconds]
                        ELSE NoSleep
    /\ network_used' = TRUE
    /\ blank_only' = IF raw.shape = "empty" THEN blank_only ELSE blank_only \ Range(batch)
    /\ request_counts' = [t \in DOMAIN request_counts |->
                             IF t \in Range(batch) THEN request_counts[t] + 1
                             ELSE request_counts[t]]
    /\ call_count' = call_count + 1
    /\ UNCHANGED raise_counts
    /\ pc' = "loop"
    /\ UNCHANGED <<params, total_tickers, batch, outcome>>
    /\ UNCHANGED names_vars

CallReturns == \E raw \in Responses(batch) : CallReturnsWith(raw)

\* the queue is empty: raise for the failures, raise for no data, or return
Finish ==
    /\ pc = "loop"
    /\ pending = <<>>
    /\ outcome' = FinalOutcome
    /\ pc' = "exit"
    /\ UNCHANGED <<params, pending, total_tickers, finalized, attempt_counts,
                   no_data_counts, failed_tickers, frames, batch, succeeded,
                   confirmed_no_data, answered, empty_seen, empty_at_reset,
                   network_used, blank_only, raise_counts, request_counts, call_count, slept>>
    /\ UNCHANGED names_vars

Next ==
    \/ FetchReturns \/ FetchRaises
    \/ Validate \/ StartRound \/ CallRaises \/ CallReturns \/ Finish

Spec == Init /\ [][Next]_vars

\* The calls that sleep between rounds
SleepInit ==
    \/ InitWith(SleepCalls, "validate")
    \/ InitWith({c \in SleepCalls : c.tickers = <<>>}, "fetch")

SleepSpec == SleepInit /\ [][Next]_vars

\* The single thread of control keeps running: a round that can start does start,
\* and a provider call returns or raises.  The calls on the small ticker lists.
FairSpec ==
    /\ SmallInit
    /\ [][Next]_vars
    /\ WF_vars(StartRound)
    /\ WF_vars(CallRaises \/ CallReturns)

----------------------------------------------------------------------------
(* fetch_nyse_tickers_with_names as a call of its own *)

NamesInit ==
    /\ CallState({NoCall}, "names", FALSE)
    /\ listing \in Listings
    /\ include_types \in {{}, {"STOCK"}}
    /\ include_exchanges \in {{}, {"Q"}}
    /\ limit \in {<<>>, <<1>>}
    /\ nyse = <<>>

\* the directory request succeeds: the table is built and returned
FetchNamesReturns ==
    /\ pc = "names"
    /\ nyse' = FetchNyseTickersWithNames(listing, include_types, include_exchanges, limit)
    /\ pc' = "listed"
    /\ UNCHANGED <<params, pending, total_tickers, finalized, attempt_counts,
                   no_data_counts, failed_tickers, frames, batch, succeeded,
                   confirmed_no_data, answered, empty_seen, empty_at_reset,
                   network_used, blank_only, raise_counts, request_counts, call_count,
                   slept, outcome, listing, include_types, include_exchanges, limit>>

\* the directory request fails (client.get or raise_for_status)
FetchNamesRaises ==
    /\ pc = "names"
    /\ outcome' = [NoOutcome EXCEPT !.kind = "RequestException"]
    /\ pc' = "exit"
    /\ UNCHANGED <<params, pending, total_tickers, finalized, attempt_counts,
                   no_data_counts, failed_tickers, frames, batch, succeeded,
                   confirmed_no_data, answered, empty_seen, empty_at_reset,
                   network_used, blank_only, raise_counts, request_counts, call_count,
                   slept, names_vars>>

NamesNext == FetchNamesReturns \/ FetchNamesRaises

NamesSpec == NamesInit /\ [][NamesNext]_vars

----------------------------------------------------------------------------
(* Vocabulary of the properties *)

\* the tickers with a terminal disposition
Finalized == succeeded \cup confirmed_no_data \cup failed_tickers

\* the while loop has run and ended
LoopEnded ==
    \/ pc = "loop" /\ pending = <<>>
    \/ pc = "exit" /\ outcome.kind \notin {"ValueError", "RequestException"}

\* the call has ended after the loop (not in the ticker fetch or the argument checks)
Exited == pc = "exit" /\ outcome.kind \notin {"ValueError", "RequestException"}

DownloadFailure ==
    outcome.kind = "RuntimeError" /\ outcome.message = "Failed to download"

NoDataError ==
    outcome.kind = "RuntimeError" /\ outcome.message = "No historical price data returned"

----------------------------------------------------------------------------
(* C1: when the loop ends, every distinct input ticker has exactly one     *)
(* terminal disposition: succeeded, confirmed_no_data and failed_tickers   *)
(* are pairwise disjoint, cover the input, and their sizes add up to       *)
(* total_tickers.                                                          *)
C1_EveryTickerDisposed ==
    LoopEnded =>
        /\ succeeded \cap confirmed_no_data = {}
        /\ succeeded \cap failed_tickers = {}
        /\ confirmed_no_data \cap failed_tickers = {}
        /\ Finalized = Range(tickers)
        /\ Cardinality(succeeded) + Cardinality(confirmed_no_data)
              + Cardinality(failed_tickers) = total_tickers

(* C2: once the loop is entered, it ends: the queue becomes empty.          *)
C2_LoopEnds == (pc = "loop") ~> (pc = "loop" /\ pending = <<>>)

\* the loop ended after a transport or unresolved retry and a no-data retry
C2_Witness ==
    /\ pc = "loop" /\ pending = <<>>
    /\ total_tickers = 2
    /\ \E t \in DOMAIN attempt_counts : attempt_counts[t] > 0 /\ t \in succeeded
    /\ confirmed_no_data # {}
    /\ no_data_confirmations = 2

(* C3: a ticker with a terminal disposition is not in the queue and not in  *)
(* the batch handed to the provider; and when the first call for the input  *)
(* <<1, 2>> in one batch gave data for one ticker only, the next call asks  *)
(* for the other ticker alone.                                              *)
C3_FinalizedNeverRequeued ==
    /\ \A t \in Finalized :
          /\ t \notin Range(pending)
          /\ pc = "call" => t \notin Range(batch)
    /\ \A t, u \in Range(tickers) :
          (/\ pc = "call" /\ total_tickers = 2 /\ batch_size >= 2
           /\ t # u /\ succeeded = {t} /\ u \notin Finalized)
          => batch = <<u>> /\ pending = <<>>

\* the second call of that scenario: ticker 1 succeeded, ticker 2 was unresolved
C3_Witness ==
    /\ pc = "call" /\ tickers = <<1, 2>> /\ batch_size = 2
    /\ succeeded = {1} /\ attempt_counts[2] = 1 /\ batch = <<2>>


(* C4: when the provider call raises, every ticker of the batch gets        *)
(* attempt_count + 1 and no_data_count = 0, is appended to the queue iff    *)
(* its new attempt_count <= max_retries_per_ticker and is permanently       *)
(* failed otherwise; no frame is added and no other counter changes.        *)
C4_TransportFailure ==
    [][CallRaises =>
        LET b == Range(batch)
            kept == {t \in b : attempt_counts'[t] <= max_retries_per_ticker}
        IN  /\ \A t \in b :
                  /\ attempt_counts'[t] = attempt_counts[t] + 1
                  /\ no_data_counts'[t] = 0
                  /\ t \in Range(pending') <=> t \in kept
                  /\ t \in failed_tickers' <=> t \notin kept
            /\ \A t \in DOMAIN attempt_counts \ b :
                  /\ attempt_counts'[t] = attempt_counts[t]
                  /\ no_data_counts'[t] = no_data_counts[t]
            /\ Len(pending') = Len(pending) + Cardinality(kept)
            /\ SubSeq(pending', 1, Len(pending)) = pending
            /\ failed_tickers' = failed_tickers \cup (b \ kept)
            /\ finalized' = finalized + Cardinality(b \ kept)
            /\ frames' = frames
            /\ succeeded' = succeeded /\ confirmed_no_data' = confirmed_no_data
    ]_vars

\* a failed round of the batch <<2, 1>> or <<1, 2>>: ticker 1 is out of budget,
\* ticker 2, which had an empty answer before, is asked again
C4_Witness ==
    /\ pc = "loop" /\ Range(batch) = {1, 2} /\ max_retries_per_ticker = 1
    /\ failed_tickers = {1} /\ attempt_counts[1] = 2
    /\ pending = <<2>> /\ attempt_counts[2] = 1 /\ no_data_counts[2] = 0
    /\ 2 \in answered /\ frames = <<>>

(* C5: a ticker requested in a call that returned, and absent from the      *)
(* response, gets no_data_count = 0 and attempt_count + 1, is permanently   *)
(* failed exactly when its attempt_count (transport failures and absences   *)
(* together) reaches max_retries_per_ticker + 1 and is asked again          *)
(* otherwise; the other tickers of the batch keep their attempt_count, are  *)
(* not failed, and those with data succeed.                                 *)
C5_Unresolved ==
    [][\A raw \in Responses(batch) : CallReturnsWith(raw) =>
        /\ \A t \in Absent(raw) :
              /\ no_data_counts'[t] = 0
              /\ attempt_counts'[t] = attempt_counts[t] + 1
              /\ t \in failed_tickers' <=> attempt_counts'[t] = max_retries_per_ticker + 1
              /\ t \in Range(pending') <=> attempt_counts'[t] <= max_retries_per_ticker
              /\ t \notin succeeded' \cup confirmed_no_data'
        /\ \A u \in Range(batch) \ Absent(raw) :
              /\ attempt_counts'[u] = attempt_counts[u]
              /\ u \notin failed_tickers'
              /\ (raw.shape = "multi" /\ u \in raw.data) =>
                     u \in succeeded' /\ u \notin Range(pending')
    ]_vars

\* both tickers failed once; then ticker 1 came with data and ticker 2 was absent
C5_Witness ==
    /\ pc = "loop" /\ batch_size = 2 /\ max_retries_per_ticker = 1
    /\ Range(batch) = {1, 2}
    /\ succeeded = {1} /\ attempt_counts[1] = 1
    /\ failed_tickers = {2} /\ attempt_counts[2] = 2 /\ 2 \notin answered

(* C6: a ticker whose every round so far was a failure (the call raised or  *)
(* the ticker was unresolved) has had attempt_count rounds; it is           *)
(* permanently failed exactly when that number is max_retries_per_ticker+1, *)
(* is still queued or in the current batch before, and the call then ends   *)
(* with the download failure.                                               *)
C6_FailsInLastRound ==
    /\ \A t \in DOMAIN attempt_counts :
          t \notin answered =>
              /\ attempt_counts[t] <= max_retries_per_ticker + 1
              /\ t \in failed_tickers <=> attempt_counts[t] = max_retries_per_ticker + 1
              /\ attempt_counts[t] <= max_retries_per_ticker =>
                     \/ t \in Range(pending)
                     \/ pc = "call" /\ t \in Range(batch)
    /\ (Exited /\ failed_tickers \ answered # {}) => DownloadFailure

\* the call ended with the failure of a ticker that failed in both of its rounds,
\* and of one that failed in its only round
C6_Witness ==
    /\ Exited /\ DownloadFailure
    /\ \/ /\ max_retries_per_ticker = 1
          /\ \E t \in failed_tickers \ answered : attempt_counts[t] = 2
       \/ /\ max_retries_per_ticker = 0
          /\ \E t \in failed_tickers \ answered : attempt_counts[t] = 1

(* C7: the call ends with the download failure iff some ticker is           *)
(* permanently failed when the loop ends, also when frames were collected;  *)
(* no table is returned then.                                               *)
C7_FailureIffFailed ==
    Exited =>
        /\ DownloadFailure <=> failed_tickers # {}
        /\ failed_tickers # {} => outcome.kind # "return" /\ outcome.table = <<>>

\* the failure is raised although another ticker succeeded
C7_Witness ==
    Exited /\ DownloadFailure /\ frames # <<>> /\ succeeded # {}

(* C8, as claimed: every permanently failed ticker is named in the error.   *)
C8_AllFailedNamed ==
    (Exited /\ DownloadFailure) => failed_tickers \subseteq Range(outcome.sample)

(* C8, amended: every permanently failed ticker is named in the error when  *)
(* at most 20 tickers failed; when more failed, 20 of them are named.       *)
C8_FailedNamedUpToCap ==
    (Exited /\ DownloadFailure) =>
        /\ Cardinality(failed_tickers) <= FailedSampleCap =>
               failed_tickers \subseteq Range(outcome.sample)
        /\ Cardinality(failed_tickers) > FailedSampleCap =>
               /\ Range(outcome.sample) \subseteq failed_tickers
               /\ Cardinality(Range(outcome.sample)) = FailedSampleCap

\* two failed tickers, both named
C8_Witness ==
    /\ Exited /\ DownloadFailure
    /\ Cardinality(failed_tickers) = 2
    /\ Range(outcome.sample) = failed_tickers

(* C9: the error carries the number n of permanently failed tickers and a   *)
(* sample that is the first min(20, n) of them in ascending order.          *)
C9_SampleAndCount ==
    (Exited /\ DownloadFailure) =>
        LET n == Cardinality(failed_tickers)
            sample == outcome.sample
        IN  /\ outcome.count = n
            /\ Len(sample) = Min(FailedSampleCap, n)
            /\ Range(sample) \subseteq failed_tickers
            /\ \A i, j \in 1..Len(sample) : i < j => sample[i] < sample[j]
            /\ \A t \in failed_tickers \ Range(sample) :
                  \A i \in 1..Len(sample) : sample[i] < t

\* 21 failed tickers, of which the sample holds the first 20
C9_Witness ==
    /\ Exited /\ DownloadFailure
    /\ outcome.count = FailedSampleCap + 1
    /\ Len(outcome.sample) = FailedSampleCap
    /\ outcome.sample[1] = 1

(* C10: when the loop ends without a permanently failed ticker, the call    *)
(* ends with the no-data error iff no frame was collected, which is iff no  *)
(* ticker succeeded; otherwise it returns a table with rows.                *)
C10_NoDataIffNoRows ==
    (Exited /\ failed_tickers = {}) =>
        /\ frames = <<>> <=> succeeded = {}
        /\ NoDataError <=> succeeded = {}
        /\ succeeded # {} =>
               /\ outcome.kind = "return"
               /\ outcome.table # <<>>
               /\ {outcome.table[i].Ticker : i \in 1..Len(outcome.table)} = succeeded

\* every ticker was confirmed empty: the no-data error
C10_Witness ==
    /\ Exited /\ NoDataError
    /\ failed_tickers = {} /\ confirmed_no_data = Range(tickers)
    /\ total_tickers = 2

\* the number of rows of ticker t in the returned table
RowsOf(t) ==
    Cardinality({i \in 1..Len(outcome.table) : outcome.table[i].Ticker = t})

\* the present-but-empty answers of ticker t since its last transport failure,
\* unresolved occurrence or success
EmptyRun(t) == empty_seen[t] - empty_at_reset[t]

(* C11: a ticker a returned response holds without usable rows gets         *)
(* no_data_count + 1 and keeps its attempt_count; it is confirmed_no_data   *)
(* iff the new no_data_count >= no_data_confirmations and is asked again    *)
(* otherwise.  So after one empty answer under no_data_confirmations = 2    *)
(* the ticker is not confirmed, and when a later answer has data it         *)
(* succeeds, with its rows in the returned table.                           *)
C11_NoData ==
    /\ [][\A raw \in Responses(batch) : CallReturnsWith(raw) =>
            \A t \in PresentEmpty(raw) :
                /\ no_data_counts'[t] = no_data_counts[t] + 1
                /\ attempt_counts'[t] = attempt_counts[t]
                /\ t \in confirmed_no_data' <=> no_data_counts'[t] >= no_data_confirmations
                /\ t \in Range(pending') <=> no_data_counts'[t] < no_data_confirmations
                /\ t \notin succeeded' \cup failed_tickers'
       ]_vars
    /\ [](\A t \in DOMAIN empty_seen :
            /\ (no_data_confirmations = 2 /\ empty_seen[t] = 1) =>
                   t \notin confirmed_no_data
            /\ (Exited /\ outcome.kind = "return" /\ t \in succeeded) =>
                   RowsOf(t) = Cardinality(Dates))

\* the scenario: the only ticker was empty once, then came with data; two rows
C11_Witness ==
    /\ Exited /\ outcome.kind = "return"
    /\ tickers = <<1>> /\ no_data_confirmations = 2
    /\ empty_seen[1] = 1 /\ attempt_counts[1] = 0
    /\ succeeded = {1} /\ Len(outcome.table) = 2

(* C12, as claimed: a ticker is confirmed_no_data as soon as its            *)
(* present-but-empty answers number no_data_confirmations in total, other   *)
(* rounds of the ticker in between notwithstanding.                         *)
C12_TotalEmptiesConfirm ==
    \A t \in DOMAIN empty_seen :
        empty_seen[t] >= no_data_confirmations => t \in confirmed_no_data

(* C12, amended: a ticker is confirmed_no_data exactly when its             *)
(* present-but-empty answers since its last transport failure or unresolved *)
(* occurrence number no_data_confirmations: the empty answers must come in  *)
(* a row, a failure in between starts the count again.                      *)
C12_ConsecutiveEmptiesConfirm ==
    \A t \in DOMAIN empty_seen :
        t \in confirmed_no_data <=> EmptyRun(t) >= no_data_confirmations

\* confirmed with the third empty answer: the first one came before a failure
C12_Witness ==
    /\ no_data_confirmations = 2
    /\ \E t \in confirmed_no_data :
          empty_seen[t] = 3 /\ empty_at_reset[t] = 1 /\ attempt_counts[t] = 1

(* C13: in every state, no_data_count of a ticker is the number of its      *)
(* present-but-empty answers since its most recent transport failure,       *)
(* unresolved occurrence or success, or since the start if there was none.  *)
C13_NoDataCount ==
    \A t \in DOMAIN no_data_counts : no_data_counts[t] = EmptyRun(t)

\* one empty answer, a failure, one more empty answer: the count is 1 of 2
C13_Witness ==
    /\ no_data_confirmations = 2
    /\ \E t \in DOMAIN no_data_counts :
          /\ empty_seen[t] = 2 /\ attempt_counts[t] = 1
          /\ no_data_counts[t] = 1 /\ t \in Range(pending)

BadArguments ==
    \/ batch_size < 1
    \/ max_retries_per_ticker < 0
    \/ retry_backoff_seconds < 0
    \/ no_data_confirmations < 1

(* C15: when batch_size < 1, max_retries_per_ticker < 0,                    *)
(* retry_backoff_seconds < 0 or no_data_confirmations < 1, no request goes  *)
(* out at any time and the call can only end with the configuration error,  *)
(* whether the ticker list is given or left to be fetched.                  *)
C15_ConfigErrorBeforeNetwork ==
    BadArguments =>
        /\ ~network_used
        /\ pc = "exit" => outcome.kind = "ValueError"

\* the position of the first occurrence of x in s
FirstIndex(s, x) == CHOOSE i \in 1..Len(s) : s[i] = x /\ \A j \in 1..(i - 1) : s[j] # x

\* no element occurs twice in s
NoRepeats(s) == \A i, j \in 1..Len(s) : i # j => s[i] # s[j]

(* C16: the set-up puts each distinct input ticker into the queue once, in  *)
(* the order of first occurrence in the input, and sets total_tickers to    *)
(* the number of distinct input tickers; afterwards no batch names a ticker *)
(* twice and total_tickers stays that number.                               *)
C16_QueueSeeded ==
    /\ [][(Validate /\ pc' = "loop") =>
            /\ Range(pending') = Range(tickers)
            /\ NoRepeats(pending')
            /\ \A i, j \in 1..Len(pending') :
                  i < j => FirstIndex(tickers, pending'[i]) < FirstIndex(tickers, pending'[j])
            /\ total_tickers' = Cardinality(Range(tickers))
       ]_vars
    /\ [](pc \in {"loop", "call"} =>
            /\ total_tickers = Cardinality(Range(tickers))
            /\ NoRepeats(pending)
            /\ pc = "call" => NoRepeats(batch))

\* the first round for the input 2, 1, 2 asks for 2 and 1, once each
C16_Witness ==
    /\ pc = "call" /\ tickers = RepeatInput
    /\ batch = <<2, 1>> /\ pending = <<>> /\ total_tickers = 2

\* the tickers of the batch the round has put back on the queue
Requeued == Range(batch) \cap Range(pending')

\* the round calls for a retry: the call raised, or a ticker is unresolved, or a
\* ticker is asked again after an empty answer
RetryWorthy(raw) == Absent(raw) # {} \/ PresentEmpty(raw) \cap Requeued # {}

\* min(retry_backoff_seconds * 2^(m - 1), 60) for m >= 0 (the timings are even)
BackoffFor(m) == Min((retry_backoff_seconds * Pow2(m)) \div 2, BackoffCapSeconds)

(* C17, as claimed: after a round with a transport failure, an unresolved   *)
(* ticker or a no-data retry, with retry_backoff_seconds > 0, the sleep is  *)
(* min(retry_backoff_seconds * 2^(m - 1), 60) seconds, m the highest new    *)
(* attempt_count of the tickers re-enqueued in the round; at most 60.       *)
C17_BackoffOfRequeued ==
    [][retry_backoff_seconds > 0 =>
        LET claimed == [kind |-> "backoff",
                        seconds |-> BackoffFor(SetMax({attempt_counts'[t] : t \in Requeued}))]
        IN  /\ CallRaises => slept' = claimed /\ slept'.seconds <= BackoffCapSeconds
            /\ \A raw \in Responses(batch) : (CallReturnsWith(raw) /\ RetryWorthy(raw)) =>
                  slept' = claimed /\ slept'.seconds <= BackoffCapSeconds
    ]_vars

(* C17, amended: in such a round the sleep is                               *)
(* min(retry_backoff_seconds * 2^(m - 1), 60) seconds, m the highest of the *)
(* new attempt_count of every ticker of a batch whose call raised and of    *)
(* every unresolved ticker (re-enqueued or permanently failed in the round) *)
(* and the new no_data_count of every ticker re-enqueued after an empty     *)
(* answer; at most 60.                                                      *)
C17_BackoffOfRound ==
    [][retry_backoff_seconds > 0 =>
        /\ CallRaises =>
              /\ slept' = [kind |-> "backoff",
                           seconds |-> BackoffFor(SetMax({attempt_counts'[t] : t \in Range(batch)}))]
              /\ slept'.seconds <= BackoffCapSeconds
        /\ \A raw \in Responses(batch) : (CallReturnsWith(raw) /\ RetryWorthy(raw)) =>
              /\ slept' = [kind |-> "backoff",
                           seconds |-> BackoffFor(SetMax(
                               {attempt_counts'[t] : t \in Absent(raw)}
                               \cup {no_data_counts'[t] : t \in PresentEmpty(raw) \cap Requeued}))]
              /\ slept'.seconds <= BackoffCapSeconds
    ]_vars

\* a round after which ticker 1, unresolved for the second time, is permanently
\* failed and ticker 2 is asked again after its first empty answer: the sleep is
\* min(40 * 2, 60) = 60 seconds
C17_Witness ==
    /\ pc = "loop" /\ retry_backoff_seconds = 40 /\ max_retries_per_ticker = 1
    /\ slept = [kind |-> "backoff", seconds |-> BackoffCapSeconds]
    /\ failed_tickers = {1} /\ attempt_counts[1] = 2
    /\ pending = <<2>> /\ attempt_counts[2] = 0 /\ no_data_counts[2] = 1
    /\ empty_seen[2] = 1

(* C18: for every batch handed to the provider and every response to it,    *)
(* the normaliser's three classes are pairwise disjoint, their union is the *)
(* batch, and they follow the rule: absent from the response -> unresolved, *)
(* present without a non-null row -> no_data, present with a non-null row   *)
(* -> success; for the grouped and the flat shape and every batch length.   *)
C18_ClassifiesEveryTicker ==
    pc = "call" =>
        \A raw \in Responses(batch) :
            LET ex == ExtractYfinanceBatch(raw, batch)
            IN  /\ ex.success \cap ex.no_data = {}
                /\ ex.success \cap ex.unresolved = {}
                /\ ex.no_data \cap ex.unresolved = {}
                /\ ex.success \cup ex.no_data \cup ex.unresolved = Range(batch)
                /\ ex.unresolved = Absent(raw)
                /\ ex.no_data = PresentEmpty(raw)
                /\ ex.success = WithData(raw)

(* C19: a round whose response is entirely empty leaves every ticker of the *)
(* batch unresolved and none no_data: attempt_count + 1, no_data_count 0,   *)
(* no frame, nobody confirmed.  A ticker whose every round was such a       *)
(* response has no_data_count 0, is never confirmed_no_data, is permanently *)
(* failed exactly when it has had max_retries_per_ticker + 1 rounds, and is *)
(* permanently failed when the loop ends.                                   *)
C19_EmptyResponse ==
    /\ [][\A raw \in Responses(batch) : (raw.shape = "empty" /\ CallReturnsWith(raw)) =>
            /\ ExtractYfinanceBatch(raw, batch).unresolved = Range(batch)
            /\ ExtractYfinanceBatch(raw, batch).no_data = {}
            /\ \A t \in Range(batch) :
                  /\ attempt_counts'[t] = attempt_counts[t] + 1
                  /\ no_data_counts'[t] = 0
                  /\ empty_seen'[t] = empty_seen[t]
            /\ confirmed_no_data' = confirmed_no_data
            /\ succeeded' = succeeded
            /\ frames' = frames
       ]_vars
    /\ [](\A t \in blank_only :
            /\ no_data_counts[t] = 0 /\ empty_seen[t] = 0
            /\ t \notin confirmed_no_data \cup succeeded
            /\ t \in failed_tickers <=> attempt_counts[t] = max_retries_per_ticker + 1
            /\ LoopEnded => t \in failed_tickers)

\* the loop ended: ticker 1 had two rounds, both entirely empty answers
C19_Witness ==
    /\ LoopEnded /\ max_retries_per_ticker = 1
    /\ 1 \in blank_only /\ attempt_counts[1] = 2 /\ failed_tickers = {1}
    /\ total_tickers = 2 /\ confirmed_no_data = {2}

\* the grouped frame that holds for the only ticker of the batch what the flat
\* frame raw holds
Grouped(raw) ==
    [shape |-> "multi", level0 |-> {batch[1]},
     data |-> IF raw.dates = {} THEN {} ELSE {batch[1]}, dates |-> raw.dates,
     index |-> raw.index]

(* C20: for a batch of one ticker, a flat response and the grouped response *)
(* with the same data get the same classification and the same rows from    *)
(* the normaliser, and a round step is the effect of the one exactly when   *)
(* it is the effect of the other.                                           *)
C20_ShapesAgree ==
    /\ [](pc = "call" /\ Len(batch) = 1 =>
            \A raw \in Responses(batch) : raw.shape = "flat" =>
                /\ Grouped(raw) \in Responses(batch)
                /\ ExtractYfinanceBatch(raw, batch)
                      = ExtractYfinanceBatch(Grouped(raw), batch))
    /\ [][Len(batch) = 1 =>
            \A raw \in Responses(batch) : raw.shape = "flat" =>
                (CallReturnsWith(raw) <=> CallReturnsWith(Grouped(raw)))
       ]_vars

\* a retry round for the only ticker: the provider can answer the one-ticker
\* batch with a flat frame, with rows or without
C20_Witness ==
    /\ pc = "call" /\ batch = <<1>> /\ tickers = <<1>>
    /\ empty_seen[1] = 1 /\ no_data_confirmations = 2
    /\ \E raw \in Responses(batch) :
          raw.shape = "flat" /\ ExtractYfinanceBatch(raw, batch).success = {1}
    /\ \E raw \in Responses(batch) :
          raw.shape = "flat" /\ ExtractYfinanceBatch(raw, batch).no_data = {1}

\* the rows the rounds have produced, in the order of production
Produced == Concat(frames)

(* C21: the returned table has no two rows with the same (ticker, date)     *)
(* pair; it holds every (ticker, date) pair that was produced, and its row  *)
(* for a pair is the one produced last.                                     *)
C21_LastRowKept ==
    (Exited /\ outcome.kind = "return") =>
        LET table == outcome.table
        IN  /\ \A i, j \in 1..Len(table) : i # j => ~SameKey(table[i], table[j])
            /\ \A k \in 1..Len(Produced) :
                  \E i \in 1..Len(table) :
                      /\ SameKey(table[i], Produced[k])
                      /\ (\A n \in (k + 1)..Len(Produced) : ~SameKey(Produced[n], Produced[k]))
                             => table[i] = Produced[k]
            /\ \A i \in 1..Len(table) : \E k \in 1..Len(Produced) : table[i] = Produced[k]

\* both tickers of the list 2, 1, 2 came with the first date twice, one of them
\* after a retry: of the two rows of that date the second is in the table
C21_Witness ==
    /\ Exited /\ outcome.kind = "return" /\ repeat_index
    /\ tickers = RepeatInput /\ succeeded = {1, 2}
    /\ \E t \in succeeded : attempt_counts[t] = 1
    /\ Len(Produced) = 6 /\ Len(outcome.table) = 4
    /\ outcome.table[1] = [Date |-> 1, Ticker |-> 1, Close |-> 2]

\* every round of ticker t so far was a call that raised
OnlyRaised(t) == raise_counts[t] = request_counts[t]

\* ticker t succeeded in its last round, and every round before was a call that raised
RaisedThenData(t) ==
    t \in succeeded /\ request_counts[t] = raise_counts[t] + 1

(* C22: a provider call that raises does not end the run: the step returns  *)
(* to the loop with no outcome, no frame and nobody succeeded or confirmed. *)
(* A ticker whose calls raised k <= max_retries_per_ticker times and did    *)
(* nothing else is not failed; when its next call returns data it is        *)
(* succeeded after k + 1 calls, and the run, unless another ticker failed,  *)
(* returns its rows.                                                        *)
C22_RaiseIsAbsorbed ==
    /\ [][CallRaises =>
            /\ pc' = "loop" /\ outcome' = outcome
            /\ frames' = frames
            /\ succeeded' = succeeded /\ confirmed_no_data' = confirmed_no_data
       ]_vars
    /\ [](\A t \in DOMAIN raise_counts :
            /\ (OnlyRaised(t) /\ raise_counts[t] <= max_retries_per_ticker) =>
                   /\ t \notin failed_tickers
                   /\ attempt_counts[t] = raise_counts[t]
            /\ RaisedThenData(t) =>
                   /\ raise_counts[t] <= max_retries_per_ticker
                   /\ attempt_counts[t] = raise_counts[t]
                   /\ (Exited /\ failed_tickers = {}) =>
                          outcome.kind = "return" /\ RowsOf(t) = Cardinality(Dates))

\* the scenario: the first call for the only ticker raised, the second returned
\* its rows; two calls, the table is returned
C22_Witness ==
    /\ Exited /\ outcome.kind = "return"
    /\ tickers = <<1>> /\ max_retries_per_ticker = 1
    /\ raise_counts[1] = 1 /\ request_counts[1] = 2 /\ call_count = 2
    /\ succeeded = {1} /\ Len(outcome.table) = 2

\* ceil(n / d) for d >= 1
CeilDiv(n, d) == (n + d - 1) \div d

(* C23: a ticker that a response holds with a non-null row in the first     *)
(* call that names it is succeeded by that round, is not queued again and   *)
(* has been requested once, for good; when every input ticker succeeded on  *)
(* its first request, the run made ceil(total_tickers / batch_size) calls.  *)
C23_FirstAttemptSuccess ==
    /\ [][\A raw \in Responses(batch) : CallReturnsWith(raw) =>
            \A t \in WithData(raw) : request_counts[t] = 0 =>
                /\ t \in succeeded' /\ t \notin Range(pending')
                /\ request_counts'[t] = 1
       ]_vars
    /\ [](\A t \in succeeded :
            (attempt_counts[t] = 0 /\ empty_seen[t] = 0) => request_counts[t] = 1)
    /\ []((LoopEnded /\ \A t \in Range(tickers) : t \in succeeded /\ request_counts[t] = 1)
            => call_count = CeilDiv(total_tickers, batch_size))

\* the scenario: both tickers of one batch came with data; one call
C23_Witness ==
    /\ LoopEnded /\ tickers = <<1, 2>> /\ batch_size = 2
    /\ succeeded = {1, 2} /\ request_counts = <<1, 1>> /\ call_count = 1

----------------------------------------------------------------------------
(* C24: the directory with names *)

\* fetch_nyse_tickers_with_names has returned its table
Listed == pc = "listed"

\* the row passes the exchange filter, the symbol filter and the type filter
Kept(r) ==
    /\ r.Exchange \in AllowedExchanges(include_exchanges)
    /\ IsListable(r.Symbol)
    /\ ClassifySecurityType(r.ETF, r.SecurityName) \in AllowedTypes(include_types)

KeptTickers == {listing[i].Symbol : i \in {j \in 1..Len(listing) : Kept(listing[j])}}

\* the first row of the file that names the ticker
FirstListed(t) ==
    listing[CHOOSE i \in 1..Len(listing) :
               /\ listing[i].Symbol = t
               /\ \A j \in 1..(i - 1) : listing[j].Symbol # t]

\* the first row of the file that names the ticker and passes the filters
FirstKept(t) ==
    listing[CHOOSE i \in 1..Len(listing) :
               /\ listing[i].Symbol = t /\ Kept(listing[i])
               /\ \A j \in 1..(i - 1) : ~(listing[j].Symbol = t /\ Kept(listing[j]))]

\* each ticker at most once, in ascending order
AscendingTickers ==
    \A i, j \in 1..Len(nyse) : i < j => nyse[i].Ticker < nyse[j].Ticker

\* the table holds the kept tickers, or with a limit the first `limit` of them
FirstLimitTickers ==
    {nyse[i].Ticker : i \in 1..Len(nyse)} =
        {t \in KeptTickers :
            limit # <<>> => Cardinality({u \in KeptTickers : u < t}) < limit[1]}

\* C24 as stated: the table returned by fetch_nyse_tickers_with_names holds each
\* ticker at most once in ascending order, the name and type of a ticker are
\* those of its first occurrence in the source listing whatever the filters,
\* and a limit keeps the first `limit` rows of the sorted list.
C24_FirstInListing ==
    Listed =>
        /\ AscendingTickers
        /\ FirstLimitTickers
        /\ \A i \in 1..Len(nyse) : nyse[i] = NamedRow(FirstListed(nyse[i].Ticker))

\* C24 (amended): the table returned by fetch_nyse_tickers_with_names holds each
\* ticker at most once in ascending order, the name and type of a ticker are
\* those of its first occurrence among the rows that pass the exchange, symbol
\* and type filters, and a limit keeps the first `limit` rows of the sorted list.
C24_FirstKept ==
    Listed =>
        /\ AscendingTickers
        /\ FirstLimitTickers
        /\ \A i \in 1..Len(nyse) : nyse[i] = NamedRow(FirstKept(nyse[i].Ticker))

\* a ticker listed first on an exchange that is filtered out and then on a kept one
C24_Witness ==
    /\ Listed
    /\ include_exchanges = {} /\ include_types = {} /\ limit = <<>>
    /\ listing = <<[Symbol |-> 1, SecurityName |-> "Alpha Common Stock",
                    Exchange |-> "Q", ETF |-> "N"],
                   [Symbol |-> 1, SecurityName |-> "Alpha Income ETN",
                    Exchange |-> "N", ETF |-> "Y"]>>
    /\ nyse = <<[Ticker |-> 1, CompanyName |-> "Alpha Income ETN", Type |-> "ETN"]>>

----------------------------------------------------------------------------
(* C25: the order of the work queue *)

\* the tickers in front of t in a queue that holds t
Ahead(queue, t) ==
    {queue[j] : j \in {k \in 1..Len(queue) : \A i \in 1..k : queue[i] # t}}

\* C25: each batch is the first min(batch_size, queue length) tickers of the
\* queue in queue order; a ticker re-enqueued by a round comes from the batch
\* of the round and goes behind every ticker the round left in the queue; no
\* ticker ever moves in front of a ticker that stays in the queue.  So every
\* ticker in front of a retried ticker is requested no later than that ticker.
C25_QueueOrder ==
    [][/\ StartRound =>
            /\ Len(batch') = Min(batch_size, Len(pending))
            /\ pending = batch' \o pending'
            /\ \A t \in Range(batch') : Ahead(pending, t) \subseteq Range(batch')
       /\ (CallRaises \/ CallReturns) =>
            \A t \in Range(pending') \ Range(pending) :
                /\ t \in Range(batch)
                /\ Range(pending) \subseteq Ahead(pending', t)
       /\ \A t \in Range(pending) \cap Range(pending') :
            Ahead(pending', t) \subseteq Ahead(pending, t)]_vars

\* ticker 1 failed once, went behind ticker 2, and is requested again after it
C25_Witness ==
    /\ pc = "call" /\ tickers = <<1, 2>> /\ batch_size = 1
    /\ batch = <<1>> /\ attempt_counts[1] = 1
    /\ request_counts = <<1, 1>>

----------------------------------------------------------------------------
(* C26: the flat delay between rounds *)

\* the round that got raw leaves a ticker unresolved or asks one again after an
\* empty answer
RetryCondition(raw) ==
    LET ex == ExtractYfinanceBatch(raw, batch)
    IN  ex.unresolved # {} \/ ex.no_data \cap Range(pending') # {}

\* C26: the flat delay_seconds sleep happens only after a round whose provider
\* call returned, left no ticker unresolved and re-enqueued no ticker for a
\* no-data retry, with the queue still non-empty; a round with a retry-worthy
\* condition never sleeps delay_seconds, whatever retry_backoff_seconds is.
C26_DelayOnlyAfterCleanRound ==
    [][/\ CallRaises => slept'.kind # "delay"
       /\ \A raw \in Responses(batch) :
            (CallReturnsWith(raw) /\ slept'.kind = "delay") =>
                (~RetryCondition(raw) /\ pending' # <<>>)]_vars

----------------------------------------------------------------------------
(* C27: the ranges of the two counters *)

\* C27: attempt_count never decreases; 0 <= attempt_count <=
\* max_retries_per_ticker + 1 and 0 <= no_data_count <= no_data_confirmations;
\* a ticker whose attempt_count is max_retries_per_ticker + 1 is permanently
\* failed, and one whose no_data_count is no_data_confirmations is confirmed
\* no-data.
C27_CounterRanges ==
    /\ [][\A t \in DOMAIN attempt_counts \cap DOMAIN attempt_counts' :
             attempt_counts'[t] >= attempt_counts[t]]_vars
    /\ [](\A t \in DOMAIN attempt_counts :
             /\ 0 <= attempt_counts[t]
             /\ attempt_counts[t] <= max_retries_per_ticker + 1
             /\ 0 <= no_data_counts[t]
             /\ no_data_counts[t] <= no_data_confirmations
             /\ attempt_counts[t] = max_retries_per_ticker + 1 => t \in failed_tickers
             /\ no_data_counts[t] = no_data_confirmations => t \in confirmed_no_data)

\* ticker 1 has used its retry budget and ticker 2 its confirmations
C27_Witness ==
    /\ pc = "loop" /\ tickers = <<1, 2>>
    /\ max_retries_per_ticker = 1 /\ no_data_confirmations = 2
    /\ attempt_counts = <<2, 0>> /\ no_data_counts = <<0, 2>>
    /\ failed_tickers = {1} /\ confirmed_no_data = {2}

----------------------------------------------------------------------------
(* C28: the number of provider calls that name a ticker *)

\* C28: over one run each ticker is named in at most
\* (max_retries_per_ticker + 1) * no_data_confirmations provider calls.
C28_RequestBound ==
    \A t \in DOMAIN request_counts :
        request_counts[t] <= (max_retries_per_ticker + 1) * no_data_confirmations

\* the bound is reached: one empty answer, a failure, one empty answer, a failure
C28_Witness ==
    /\ LoopEnded /\ tickers = <<1>>
    /\ max_retries_per_ticker = 1 /\ no_data_confirmations = 2
    /\ request_counts[1] = 4 /\ empty_seen[1] = 2 /\ attempt_counts[1] = 2
    /\ failed_tickers = {1}

----------------------------------------------------------------------------
(* C29: the queue holds each unfinished ticker once *)

\* C29: at the start of every loop iteration the queue holds no ticker twice
\* and no finalized ticker; while the provider is called the tickers of the
\* batch are not in the queue; a round appends each ticker at most once.
C29_QueueDistinct ==
    /\ [][(CallRaises \/ CallReturns) =>
            /\ Len(pending') >= Len(pending)
            /\ SubSeq(pending', 1, Len(pending)) = pending
            /\ NoRepeats(SubSeq(pending', Len(pending) + 1, Len(pending')))]_vars
    /\ [](pc = "loop" => NoRepeats(pending) /\ Range(pending) \cap Finalized = {})
    /\ [](pc = "call" => Range(batch) \cap Range(pending) = {})

\* after a round on two tickers: one succeeded, the other is queued again
C29_Witness ==
    /\ pc = "loop" /\ tickers = <<1, 2>> /\ batch_size = 2
    /\ pending = <<2>> /\ succeeded = {1} /\ attempt_counts = <<0, 1>>

----------------------------------------------------------------------------
(* C30: the finalized counter *)

\* C30: at the end of every round finalized is the number of tickers with a
\* terminal disposition (succeeded, confirmed no-data or permanently failed);
\* it never decreases and never exceeds total_tickers; finalized plus the
\* length of the queue is total_tickers.
C30_FinalizedCount ==
    /\ [][finalized' >= finalized]_vars
    /\ [](pc = "loop" =>
             /\ finalized = Cardinality(Finalized)
             /\ finalized <= total_tickers
             /\ finalized + Len(pending) = total_tickers)

----------------------------------------------------------------------------
(* C31: the rounds that give a ticker its rows *)

\* the tickers named by the rows of a frame
TickersOf(frame) == {frame[i].Ticker : i \in 1..Len(frame)}

\* the rounds (frames of the accumulated list) that hold rows of ticker t
RoundsWithRows(t) == {k \in 1..Len(frames) : t \in TickersOf(frames[k])}

\* C31: only a round whose call returned adds rows to the accumulated result,
\* the rows it adds are rows of tickers of its batch that the round classified
\* succeeded, and the rows of a ticker come from at most one round of the run.
C31_RowsOfSuccessOnly ==
    /\ [][/\ frames' # frames => CallReturns
          /\ \A raw \in Responses(batch) : CallReturnsWith(raw) =>
                LET old == Len(Produced)
                    all == Concat(frames')
                IN  /\ Len(all) >= old
                    /\ SubSeq(all, 1, old) = Produced
                    /\ \A i \in (old + 1)..Len(all) :
                          /\ all[i].Ticker \in WithData(raw)
                          /\ all[i].Ticker \in succeeded' \ succeeded]_vars
    /\ [](\A t \in Range(tickers) : Cardinality(RoundsWithRows(t)) <= 1)

\* ticker 1 succeeded in the first round, ticker 2 was retried and succeeded in
\* the second: each has its rows from one round
C31_Witness ==
    /\ pc = "loop" /\ tickers = <<1, 2>> /\ batch_size = 2
    /\ attempt_counts = <<0, 1>> /\ succeeded = {1, 2}
    /\ Len(frames) = 2
    /\ RoundsWithRows(1) = {1} /\ RoundsWithRows(2) = {2}

====
